---- MODULE Spec2Model ----
(***************************************************************************)
(* Workflow graph assembly and dual-mode execution of the AgentScope       *)
(* workstation: build_dag, ASDiGraph.add_as_node, ASDiGraph.run,           *)
(* ASDiGraph.compile and the node classes of workflow_node.py.             *)
(***************************************************************************)
EXTENDS Integers, Sequences, FiniteSets, TLC

(***************************************************************************)
(* Bounds of the explored configurations.                                  *)
(***************************************************************************)
\* ids of the descriptors a configuration may hold (drawflow ids "1","2","3")
NodeIds == {1, 2, 3}
\* most flow connections in one configuration
MaxEdges == 2
\* most entries of data.elements over a whole configuration
MaxContained == 2
\* most compile() calls on one graph
MaxCompiles == 2
\* longest list of import lines handed to remove_duplicates_from_end
MaxImportLines == 4
\* keyword arguments a caller hands to compile(): none, or one fixed set
KwargChoices == {0, 1}

(***************************************************************************)
(* Small helpers on sequences.                                             *)
(***************************************************************************)
Range(s) == {s[i] : i \in DOMAIN s}

RECURSIVE Flatten(_)
Flatten(ss) == IF ss = <<>> THEN <<>> ELSE Head(ss) \o Flatten(Tail(ss))

RECURSIVE SortedSeq(_)
SortedSeq(S) ==
    IF S = {} THEN <<>>
    ELSE LET m == CHOOSE x \in S : \A y \in S : x <= y
         IN <<m>> \o SortedSeq(S \ {m})

RECURSIVE SeqsUpTo(_, _)
SeqsUpTo(S, n) ==
    IF n = 0 THEN {<<>>}
    ELSE LET shorter == SeqsUpTo(S, n - 1)
         IN shorter \cup {Append(q, x) : q \in {p \in shorter : Len(p) = n - 1}, x \in S}

RECURSIVE SumLen(_)
SumLen(ss) == IF ss = <<>> THEN 0 ELSE Len(Head(ss)) + SumLen(Tail(ss))

(***************************************************************************)
(* Node type system (workflow_node.py).                                    *)
(***************************************************************************)
DEFAULT_FLOW_VAR == "flow"

\* NODE_NAME_MAPPING followed by the class attribute node_type
NodeTypeOf(name) ==
    CASE name \in {"dashscope_chat", "openai_chat", "post_api_chat", "post_api_dall_e"} -> "MODEL"
      [] name = "Message" -> "MESSAGE"
      [] name \in {"DialogAgent", "UserAgent", "DictDialogAgent", "ReActAgent"} -> "AGENT"
      [] name \in {"Placeholder", "MsgHub", "SequentialPipeline", "ForLoopPipeline",
                   "WhileLoopPipeline", "IfElsePipeline", "SwitchPipeline"} -> "PIPELINE"
      [] name = "CopyNode" -> "COPY"
      [] name \in {"BingSearchService", "GoogleSearchService", "PythonService",
                   "ReadTextService", "WriteTextService"} -> "SERVICE"
      [] OTHER -> "KeyError"

\* WorkflowNode.__init__: var_name = f"{node_type.name.lower()}_{node_id}"
VarName(name, id) == <<NodeTypeOf(name), id>>
NoVar == <<"", 0>>

\* one statement of the generated program
Line(stmt, var, deps, arg) == [stmt |-> stmt, var |-> var, deps |-> deps, arg |-> arg]
EmptyLine == Line("", NoVar, <<>>, 0)

\* the node classes whose constructor sets self.pipeline
HasPipeline(name) ==
    name \in {"DialogAgent", "UserAgent", "DictDialogAgent", "ReActAgent", "Placeholder",
              "MsgHub", "SequentialPipeline", "ForLoopPipeline", "WhileLoopPipeline",
              "IfElsePipeline", "SwitchPipeline", "CopyNode"}

\* the node classes whose constructor sets self.service_func
HasServiceFunc(name) == NodeTypeOf(name) = "SERVICE"

\* as SwitchError, but without the assertion on the number of dependencies
SwitchError_NoAssert(depNames, ncases) ==
    IF Len(depNames) \notin {ncases, ncases + 1} THEN "ValueError"
    ELSE IF \E i \in 1..ncases : ~HasPipeline(depNames[i]) THEN "AttributeError"
    ELSE ""

\* SwitchPipelineNode.__init__ with ncases = len(opt_kwargs["cases"])
SwitchError(depNames, ncases) ==
    IF ~(0 < Len(depNames)) THEN "AssertionError"
    ELSE IF Len(depNames) \notin {ncases, ncases + 1} THEN "ValueError"
    ELSE IF \E i \in 1..ncases : ~HasPipeline(depNames[i]) THEN "AttributeError"
    ELSE ""

\* the default operator of a switch that was given none
Placeholder == 0

\* what SwitchPipelineNode.__init__ binds: zip(cases, dep_opts) pairs label i with
\* dependency i; a dependency beyond the labels is popped and becomes the default
SwitchBinding(deps, ncases) ==
    [cases |-> SubSeq(deps, 1, IF ncases < Len(deps) THEN ncases ELSE Len(deps)),
     default |-> IF Len(deps) = ncases + 1 THEN deps[Len(deps)] ELSE Placeholder]

\* self.dep_opts when the constructor has returned
DepOptsAfter(name, deps, ncases) ==
    IF name = "SwitchPipeline" /\ Len(deps) = ncases + 1
    THEN SubSeq(deps, 1, ncases)
    ELSE deps

\* as FixedArityError, but the assertions are left out
FixedArityError_Unchecked(name, depNames) == ""

\* the assertions of ForLoopPipelineNode, WhileLoopPipelineNode, CopyNode and
\* IfElsePipelineNode on len(self.dep_opts)
FixedArityError(name, depNames) ==
    CASE name \in {"ForLoopPipeline", "WhileLoopPipeline", "CopyNode"} ->
            IF Len(depNames) = 1 THEN "" ELSE "AssertionError"
      [] name = "IfElsePipeline" ->
            IF 0 < Len(depNames) /\ Len(depNames) <= 2 THEN "" ELSE "AssertionError"
      [] OTHER -> ""

\* as ToolError, but a dependency is taken as a tool whatever it is
ToolError_Unchecked(depNames) == ""

\* ReActAgentNode.__init__: every dependency must have a service_func
ToolError(depNames) ==
    IF \E i \in DOMAIN depNames : ~HasServiceFunc(depNames[i]) THEN "TypeError" ELSE ""

\* the constructor of each node class: "" when it returns, else the error raised
ConstructError(name, depNames, ncases) ==
    CASE name \in {"ForLoopPipeline", "WhileLoopPipeline", "CopyNode", "IfElsePipeline"} ->
            FixedArityError(name, depNames)
      [] name = "ReActAgent" -> ToolError(depNames)
      [] name = "SwitchPipeline" -> SwitchError(depNames, ncases)
      [] OTHER -> ""

\* len(self.opt_kwargs["cases"]) of SwitchPipelineNode.__init__, reached once the
\* assertion on the dependencies has passed: the key must be there
CasesError(name, depNames, args) ==
    IF name = "SwitchPipeline" /\ 0 < Len(depNames) /\ "cases" \notin DOMAIN args
    THEN "KeyError"
    ELSE ""

(***************************************************************************)
(* node_info["data"]: a dictionary is a function from its keys, a value a  *)
(* string.  sanitize_node_data rewrites data["args"] and data["source"].   *)
(***************************************************************************)
\* an empty dictionary
NoArgs == [k \in {} |-> ""]

\* the texts that denote a callable, and the value Python's eval gives for one
CallableTexts == {"lambda x: x"}
is_callable_expression(value) == value \in CallableTexts
Eval(value) == "<function <lambda>>"

\* dict.pop(key)
Pop(d, key) == [k \in DOMAIN d \ {key} |-> d[k]]

\* as sanitize_node_data, but a parameter holding "" is kept
sanitize_node_data_KeepEmpty(raw_info) ==
    [args |-> [k \in DOMAIN raw_info.args |->
                 IF is_callable_expression(raw_info.args[k]) THEN Eval(raw_info.args[k])
                 ELSE raw_info.args[k]],
     source |-> raw_info.args]

\* sanitize_node_data on the data of one descriptor
sanitize_node_data(raw_info) ==
    LET copied == raw_info.args
        kept == {k \in DOMAIN copied : copied[k] # ""}
    IN [args |-> [k \in kept |-> IF is_callable_expression(copied[k])
                                 THEN Eval(copied[k])
                                 ELSE copied[k]],
        source |-> [k \in kept |-> copied[k]]]

\* the loop "config[node_id] = sanitize_node_data(node_info)" of build_dag
SanitizeAll(data) == [i \in DOMAIN data |-> sanitize_node_data(data[i])]

\* node_info["data"] of every descriptor as the loader hands it over
DataOf(cfg) == [i \in DOMAIN cfg.args |-> [args |-> cfg.args[i], source |-> NoArgs]]

\* data.args of descriptors that declare nothing but a switch's case labels
CasesOnly == [k \in {"cases"} |-> "labels"]
CasesArgs(names) ==
    [i \in DOMAIN names |-> IF names[i] = "SwitchPipeline" THEN CasesOnly ELSE NoArgs]

\* as RegistryAfter, but every node class loads a configuration
RegistryAfter_AnyType(reg, name, id) == reg \cup {id}

\* ModelNode.__init__ loads its configuration into the ModelManager registry
RegistryAfter(reg, name, id) ==
    IF NodeTypeOf(name) = "MODEL" THEN reg \cup {id} ELSE reg

\* compile() of each node class: the imports, inits and execs fragments
CompileDict(name, id, depVars) ==
    LET v == VarName(name, id)
        call == Line("flow = var(flow)", v, <<>>, 0)
    IN CASE NodeTypeOf(name) = "MODEL" ->
            [imports |-> <<"from agentscope.manager import ModelManager">>,
             inits |-> Line("ModelManager.load_model_configs", NoVar, <<>>, id),
             execs |-> EmptyLine]
         [] name = "Message" ->
            [imports |-> <<"from agentscope.message import Msg">>,
             inits |-> Line("flow = Msg", NoVar, <<>>, id),
             execs |-> EmptyLine]
         [] name = "DialogAgent" ->
            [imports |-> <<"from agentscope.agents import DialogAgent">>,
             inits |-> Line("var = DialogAgent", v, <<>>, id),
             execs |-> call]
         [] name = "SequentialPipeline" ->
            [imports |-> <<"from agentscope.pipelines import SequentialPipeline">>,
             inits |-> Line("var = SequentialPipeline", v, depVars, 0),
             execs |-> call]
         [] name = "CopyNode" ->
            [imports |-> <<"">>,
             inits |-> EmptyLine,
             execs |-> Line("flow = var(flow)", depVars[1], <<>>, 0)]
         [] name = "ReActAgent" ->
            [imports |-> <<"from agentscope.agents import ReActAgent">>,
             inits |-> Line("var = ReActAgent", v, depVars, id),
             execs |-> call]
         [] name = "BingSearchService" ->
            [imports |-> <<"from agentscope.service import ServiceToolkit",
                           "from functools import partial",
                           "from agentscope.service import bing_search">>,
             inits |-> Line("var = partial(bing_search)", v, <<>>, id),
             execs |-> EmptyLine]
         [] name = "ForLoopPipeline" ->
            [imports |-> <<"from agentscope.web.workstation._utils import _ForLoopPipeline">>,
             inits |-> Line("var = _ForLoopPipeline", v, depVars, 0),
             execs |-> call]
         [] name = "WhileLoopPipeline" ->
            [imports |-> <<"from agentscope.web.workstation._utils import _WhileLoopPipeline">>,
             inits |-> Line("var = _WhileLoopPipeline", v, depVars, 0),
             execs |-> call]
         [] name = "IfElsePipeline" ->
            [imports |-> <<"from agentscope.web.workstation._utils import _IfElsePipeline">>,
             inits |-> Line("var = _IfElsePipeline", v, depVars, 0),
             execs |-> call]
         [] name = "SwitchPipeline" ->
            [imports |-> <<"from agentscope.web.workstation._utils import _SwitchPipeline",
                           "from agentscope.web.workstation._utils import _placeholder">>,
             inits |-> Line("var = _SwitchPipeline", v, depVars, 0),
             execs |-> call]
         [] OTHER ->
            [imports |-> <<"">>, inits |-> EmptyLine, execs |-> EmptyLine]

(***************************************************************************)
(* The graph: nx.DiGraph state plus the attributes of ASDiGraph.            *)
(***************************************************************************)
CyclicWorkflow == "ValueError: The provided configuration does not form a DAG."
TooManyPredecessors == "ValueError: Too many predecessors!"

\* ASDiGraph.__init__; reg is the process-wide ModelManager registry
NewGraph(reg) ==
    [nodes |-> <<>>,
     dep_opts |-> [n \in NodeIds |-> <<>>],
     compile_execs |-> [n \in NodeIds |-> EmptyLine],
     succ |-> [n \in NodeIds |-> <<>>],
     pred |-> [n \in NodeIds |-> <<>>],
     nodes_not_in_graph |-> {},
     constructed |-> <<>>,
     switch |-> [n \in NodeIds |-> [cases |-> <<>>, default |-> Placeholder]],
     imports |-> << <<"import agentscope">> >>,
     inits |-> <<Line("agentscope.init(logger_level=DEBUG)", NoVar, <<>>, 0),
                 Line("flow = None", NoVar, <<>>, 0)>>,
     execs |-> <<Line("\n", NoVar, <<>>, 0)>>,
     reg |-> reg,
     data |-> <<>>,
     err |-> ""]

\* as HasNode, but no vertex is ever found
HasNode_Never(g, id) == FALSE

HasNode(g, id) == id \in Range(g.nodes)

\* list.insert(i, x) with a 0-based index i
ListInsert(s, i, x) ==
    IF i >= Len(s) THEN Append(s, x)
    ELSE SubSeq(s, 1, i) \o <<x>> \o SubSeq(s, i + 1, Len(s))

\* as InsertInit, but a Model fragment goes to index 0 instead of index 1
InsertInit_AtFront(inits, type, frag) ==
    IF type = "MODEL" THEN ListInsert(inits, 0, frag) ELSE Append(inits, frag)

\* where add_as_node puts a node's init fragment
InsertInit(inits, type, frag) ==
    IF type = "MODEL" THEN ListInsert(inits, 1, frag) ELSE Append(inits, frag)

\* as ExcludedBy, but no dependency is marked
ExcludedBy_Never(type, deps) == {}

\* as ExcludedBy, but the dependencies of a Copy node are marked as well
ExcludedBy_Always(type, deps) == Range(deps)

\* which dependencies add_as_node marks as excluded from the top level
ExcludedBy(type, deps) == IF type # "COPY" THEN Range(deps) ELSE {}

\* the recorded vertices after self.add_node(node_id, ...)
AddNode(nodes, id) == IF id \in Range(nodes) THEN nodes ELSE Append(nodes, id)

\* as AddDeps, but the elements are not resolved
AddDeps_Unresolved(g, deps, cfg) == g

RECURSIVE AddAsNode(_, _, _), AddDeps(_, _, _)
\* ASDiGraph.add_as_node
AddAsNode(g, id, cfg) ==
    IF g.err # "" THEN g
    ELSE IF id \notin DOMAIN cfg.name \/ NodeTypeOf(cfg.name[id]) = "KeyError"
    THEN [g EXCEPT !.err = "KeyError"]
    ELSE IF HasNode(g, id) THEN g
    ELSE
      LET name == cfg.name[id]
          type == NodeTypeOf(name)
          deps == cfg.elements[id]
          g1 == [g EXCEPT !.nodes_not_in_graph = @ \cup ExcludedBy(type, deps)]
          g2 == AddDeps(g1, deps, cfg)
      IN IF g2.err # "" THEN g2
         ELSE
           LET depNames == [i \in DOMAIN deps |-> cfg.name[deps[i]]]
               kerr == CasesError(name, depNames, g2.data[id].args)
               cerr == IF kerr # "" THEN kerr
                       ELSE ConstructError(name, depNames, cfg.cases[id])
           IN IF cerr # "" THEN [g2 EXCEPT !.err = cerr]
              ELSE
                LET depVars == [i \in DOMAIN deps |-> VarName(cfg.name[deps[i]], deps[i])]
                    cd == CompileDict(name, id, depVars)
                IN [g2 EXCEPT !.reg = RegistryAfter(@, name, id),
                              !.data[id] = IF name = "SwitchPipeline"
                                           THEN [args |-> Pop(@.args, "cases"),
                                                 source |-> Pop(@.source, "cases")]
                                           ELSE @,
                              !.constructed = Append(@, id),
                              !.dep_opts[id] = DepOptsAfter(name, deps, cfg.cases[id]),
                              !.switch[id] = IF name = "SwitchPipeline"
                                             THEN SwitchBinding(deps, cfg.cases[id])
                                             ELSE @,
                              !.compile_execs[id] = cd.execs,
                              !.nodes = AddNode(@, id),
                              !.imports = Append(@, cd.imports),
                              !.inits = InsertInit(@, type, cd.inits)]

\* the loop "for dep_node_id in deps" of add_as_node
AddDeps(g, deps, cfg) ==
    IF deps = <<>> \/ g.err # "" THEN g
    ELSE LET d == Head(deps)
             g1 == IF HasNode(g, d) THEN g ELSE AddAsNode(g, d, cfg)
         IN AddDeps(g1, Tail(deps), cfg)

\* nx.DiGraph.add_edge: both ends become vertices, a repeated edge is one edge
AddEdge(g, u, v) ==
    LET g1 == [g EXCEPT !.nodes = AddNode(AddNode(@, u), v)]
    IN IF v \in Range(g1.succ[u]) THEN g1
       ELSE [g1 EXCEPT !.succ[u] = Append(@, v), !.pred[v] = Append(@, u)]

(***************************************************************************)
(* nx.topological_sort: Kahn's algorithm by generations, vertices and      *)
(* neighbours taken in insertion order.                                    *)
(***************************************************************************)
RECURSIVE VisitChildren(_, _, _)
VisitChildren(children, indeg, zero) ==
    IF children = <<>> THEN [indeg |-> indeg, zero |-> zero]
    ELSE LET c == Head(children)
             d == indeg[c] - 1
         IN VisitChildren(Tail(children), [indeg EXCEPT ![c] = d],
                          IF d = 0 THEN Append(zero, c) ELSE zero)

RECURSIVE VisitGeneration(_, _, _, _)
VisitGeneration(gen, g, indeg, zero) ==
    IF gen = <<>> THEN [indeg |-> indeg, zero |-> zero]
    ELSE LET r == VisitChildren(g.succ[Head(gen)], indeg, zero)
         IN VisitGeneration(Tail(gen), g, r.indeg, r.zero)

RECURSIVE Generations(_, _, _)
Generations(gen, g, indeg) ==
    IF gen = <<>> THEN <<>>
    ELSE LET r == VisitGeneration(gen, g, indeg, <<>>)
         IN gen \o Generations(r.zero, g, r.indeg)

TopologicalSort(g) ==
    LET indeg == [n \in NodeIds |-> Len(g.pred[n])]
    IN Generations(SelectSeq(g.nodes, LAMBDA n : indeg[n] = 0), g, indeg)

\* as IsDirectedAcyclicGraph, but on the subgraph of the non-excluded vertices
IsDirectedAcyclicGraph_TopLevelOnly(g) ==
    LET keep(n) == n \notin g.nodes_not_in_graph
        sub == [g EXCEPT !.nodes = SelectSeq(@, keep),
                         !.succ = [n \in NodeIds |->
                                     IF keep(n) THEN SelectSeq(g.succ[n], keep) ELSE <<>>],
                         !.pred = [n \in NodeIds |->
                                     IF keep(n) THEN SelectSeq(g.pred[n], keep) ELSE <<>>]]
    IN Len(TopologicalSort(sub)) = Len(sub.nodes)

\* nx.is_directed_acyclic_graph: the sort reaches every vertex
IsDirectedAcyclicGraph(g) == Len(TopologicalSort(g)) = Len(g.nodes)

(***************************************************************************)
(* build_dag                                                               *)
(***************************************************************************)
\* descriptor order: config.items() in insertion order
ConfigOrder(cfg) == SortedSeq(DOMAIN cfg.name)

RECURSIVE AddNodesOfType(_, _, _, _)
\* the two loops "Add and init model nodes first" / "non-model nodes"
AddNodesOfType(g, order, cfg, models) ==
    IF order = <<>> \/ g.err # "" THEN g
    ELSE LET id == Head(order)
             type == NodeTypeOf(cfg.name[id])
         IN IF type = "KeyError" THEN [g EXCEPT !.err = "KeyError"]
            ELSE AddNodesOfType(
                   IF (type = "MODEL") = models THEN AddAsNode(g, id, cfg) ELSE g,
                   Tail(order), cfg, models)

RECURSIVE AddConnections(_, _, _)
AddConnections(g, u, targets) ==
    IF targets = <<>> THEN g
    ELSE AddConnections(AddEdge(g, u, Head(targets)), u, Tail(targets))

RECURSIVE AddEdges(_, _, _)
\* the loop "Add edges"
AddEdges(g, order, cfg) ==
    IF order = <<>> THEN g
    ELSE AddEdges(AddConnections(g, Head(order), cfg.conns[Head(order)]), Tail(order), cfg)

\* as CheckDag, but the check is left out
CheckDag_Skipped(g) == g

\* the final check of build_dag
CheckDag(g) ==
    IF IsDirectedAcyclicGraph(g) THEN g ELSE [g EXCEPT !.err = CyclicWorkflow]

\* build_dag on a configuration whose descriptors hold data
BuildDag(cfg, reg, data) ==
    LET order == ConfigOrder(cfg)
        g0 == [NewGraph(reg) EXCEPT !.data = SanitizeAll(data)]
        g1 == AddNodesOfType(g0, order, cfg, TRUE)
        g2 == AddNodesOfType(g1, order, cfg, FALSE)
    IN IF g2.err # "" THEN g2 ELSE CheckDag(AddEdges(g2, order, cfg))

(***************************************************************************)
(* Executing a node: opt(x_in).  A value is the history of what produced   *)
(* it: None is <<>>, the payload of Message node m is <<m>>, and the       *)
(* output of agent a on input x is x with a appended.                      *)
(***************************************************************************)
None == <<>>

RECURSIVE Call(_, _, _, _), CallAll(_, _, _, _)
\* __call__ of each node class
Call(g, cfg, id, x) ==
    LET name == cfg.name[id]
    IN CASE name = "Message" -> <<id>>
         [] NodeTypeOf(name) = "AGENT" -> Append(x, id)
         [] name = "SequentialPipeline" -> CallAll(g, cfg, g.dep_opts[id], x)
         [] name = "CopyNode" -> Call(g, cfg, g.dep_opts[id][1], x)
         [] name = "Placeholder" -> x
         [] OTHER -> None

\* SequentialPipeline.__call__: the operators in order, each fed the last output
CallAll(g, cfg, ops, x) ==
    IF ops = <<>> THEN x ELSE CallAll(g, cfg, Tail(ops), Call(g, cfg, Head(ops), x))

\* the vertices run() and compile() schedule
SortedNodes(g) == SelectSeq(TopologicalSort(g), LAMBDA n : n \notin g.nodes_not_in_graph)

\* the branch run() takes on the gathered inputs: Python tests "not inputs",
\* then "len(inputs)", and raises otherwise
RunBranch(inputs) ==
    IF Len(inputs) = 0 THEN "no_input"
    ELSE IF Len(inputs) # 0 THEN "first_input"
    ELSE "raise"

(***************************************************************************)
(* remove_duplicates_from_end and the assembly of the program text.        *)
(***************************************************************************)
\* as Reverse, but the list is left in its order
Reverse_Unreversed(s) == s

RECURSIVE Reverse(_)
Reverse(s) == IF s = <<>> THEN <<>> ELSE Append(Reverse(Tail(s)), Head(s))

RECURSIVE DedupLoop(_, _, _)
DedupLoop(items, seen, result) ==
    IF items = <<>> THEN result
    ELSE IF Head(items) \in seen THEN DedupLoop(Tail(items), seen, result)
    ELSE DedupLoop(Tail(items), seen \cup {Head(items)}, Append(result, Head(items)))

\* as remove_duplicates_from_end, but scanning from the front
remove_duplicates_keep_first(lst) == DedupLoop(lst, {}, <<>>)

remove_duplicates_from_end(lst) == Reverse(DedupLoop(Reverse(lst), {}, <<>>))

\* "\n".join(self.imports).split("\n"): the lines of all fragments in order
HeaderLines(imports) == Flatten(imports)

\* the first init statement compile() writes, for keyword arguments kw
RootInit(kw) == Line("agentscope.init(logger_level=DEBUG, kwargs)", NoVar, <<>>, kw)

RECURSIVE ExecsOf(_, _)
ExecsOf(g, order) ==
    IF order = <<>> THEN <<>>
    ELSE <<g.compile_execs[Head(order)]>> \o ExecsOf(g, Tail(order))

\* ASDiGraph.compile up to the formatting pass: the graph it leaves and the text
CompileGraph(g, kw) ==
    [g EXCEPT !.inits[1] = RootInit(kw),
              !.execs = @ \o ExecsOf(g, SortedNodes(g))]

\* as Script, but the exec statements are put before the init statements
Script_ExecsFirst(g) ==
    [header |-> remove_duplicates_from_end(HeaderLines(g.imports)),
     body |-> g.execs \o g.inits]

\* the program text compile() assembles from the graph
Script(g) ==
    [header |-> remove_duplicates_from_end(HeaderLines(g.imports)),
     body |-> g.inits \o g.execs]

(***************************************************************************)
(* The configurations explored.                                            *)
(***************************************************************************)
Kinds == {"dashscope_chat", "Message", "DialogAgent", "SequentialPipeline", "CopyNode"}

\* the element lists a descriptor of this kind may carry: a container lists
\* other descriptors, each at most once
ElementsFor(name, id, ids) ==
    CASE name = "SequentialPipeline" ->
            {e \in SeqsUpTo(ids \ {id}, MaxContained) : Cardinality(Range(e)) = Len(e)}
      [] name = "CopyNode" -> {<<d>> : d \in ids \ {id}}
      [] OTHER -> {<<>>}

RECURSIVE ElementAssignments(_, _, _)
ElementAssignments(names, k, ids) ==
    IF k = 0 THEN {<<>>}
    ELSE {Append(p, e) : p \in ElementAssignments(names, k - 1, ids),
                         e \in ElementsFor(names[k], k, ids)}

\* containment has no cycle: no node is reachable from itself through elements
RECURSIVE Contains(_, _, _, _)
Contains(elements, a, b, fuel) ==
    /\ fuel > 0
    /\ \/ b \in Range(elements[a])
       \/ \E c \in Range(elements[a]) : Contains(elements, c, b, fuel - 1)

ContainmentAcyclic(elements) ==
    \A a \in DOMAIN elements : ~Contains(elements, a, a, Len(elements))

ConnectionsOf(edges, ids) == [u \in ids |-> SortedSeq({v \in ids : <<u, v>> \in edges})]

EdgeSets(ids) == {E \in SUBSET (ids \X ids) : Cardinality(E) <= MaxEdges}

(***************************************************************************)
(* ASDiGraph.run: the loop over sorted_nodes with its cache of outputs.    *)
(***************************************************************************)
NoValues == [n \in {} |-> None]

RECURSIVE RunLoop(_, _, _, _)
\* r = [values, calls, seen, err]: the cache, the exec_node calls made, the nodes
\* the cache had an entry for when each call was made, the error raised
RunLoop(g, cfg, order, r) ==
    IF order = <<>> \/ r.err # "" THEN r
    ELSE
      LET node == Head(order)
          preds == g.pred[node]
      IN IF \E i \in DOMAIN preds : preds[i] \notin DOMAIN r.values
         THEN [r EXCEPT !.err = "KeyError"]
         ELSE
           LET inputs == [i \in DOMAIN preds |-> r.values[preds[i]]]
               branch == RunBranch(inputs)
           IN IF branch = "raise" THEN [r EXCEPT !.err = TooManyPredecessors]
              ELSE
                LET x == IF branch = "no_input" THEN None ELSE inputs[1]
                IN RunLoop(g, cfg, Tail(order),
                           [r EXCEPT !.values = (node :> Call(g, cfg, node, x)) @@ @,
                                     !.calls = Append(@, [node |-> node, x |-> x]),
                                     !.seen = Append(@, DOMAIN r.values)])

\* as CacheAtStart, but the entries an earlier pass left are kept
CacheAtStart_Kept(left) == left

\* "values = {}" at the start of run(): whatever an earlier pass left, the cache of
\* this pass starts empty
CacheAtStart(left) == NoValues

\* run() on a graph whose last pass, if any, ended with the cache left
RunPass(g, cfg, left) ==
    RunLoop(g, cfg, SortedNodes(g),
            [values |-> CacheAtStart(left), calls |-> <<>>, seen |-> <<>>, err |-> ""])

RunGraph(g, cfg) == RunPass(g, cfg, NoValues)

(***************************************************************************)
(* State.                                                                  *)
(***************************************************************************)
VARIABLES
    config,     \* the configuration handed to build_dag
    built,      \* "none" before build_dag, "ok" when it returned, else its error
    dag,        \* the ASDiGraph (as build_dag left it when it raised)
    registry,   \* the ModelManager registry of the process
    runPc,      \* "idle" before run(), "done" when it returned, "failed" when it raised
    sorted,     \* sorted_nodes of the last run()
    values,     \* the cache of the last run() at its end: node id -> output
    calls,      \* the exec_node calls of the last run(), in order: node and input
    runErr,     \* the error the last run() raised, or ""
    programs,   \* the results of the compile() calls so far
    lst,        \* the argument of a call of remove_duplicates_from_end
    dedupPc,    \* "idle" before that call, "done" after it
    result,     \* what the call returned
    hubCfg,     \* the descriptors a MsgHub node is built from
    hubPc,      \* where the MsgHub node is: "none", "built", "failed", "returned", "raised", "next"
    participants,      \* self.participants of the MsgHub node
    participants_var,  \* self.participants_var of the MsgHub node
    hubCtx,     \* the msghub context: "closed" or "open"
    hubLog,     \* what executing the MsgHub node did, in order
    data,       \* node_info["data"] of every descriptor of config, as it is now
    again,      \* building once more from the same config: its outcome and its graph
    passes,     \* one entry per run() call: its exec_node calls and what the cache held
    file,       \* a workflow file handed to load_workflow
    importPc,   \* "idle" before load_workflow, then "loaded", "converted" or "failed"
    imported    \* the configuration the importer returned

vars == <<config, built, dag, registry, runPc, sorted, values, calls, runErr, programs,
          lst, dedupPc, result, hubCfg, hubPc, participants, participants_var, hubCtx, hubLog,
          data, again, passes, file, importPc, imported>>

hubVars == <<hubCfg, hubPc, participants, participants_var, hubCtx, hubLog>>

\* no MsgHub node under construction
HubIdle ==
    /\ hubCfg = [name |-> <<>>, elements |-> <<>>]
    /\ hubPc = "none"
    /\ participants = <<>>
    /\ participants_var = <<>>
    /\ hubCtx = "closed"
    /\ hubLog = <<>>

dedupVars == <<lst, dedupPc, result>>

importVars == <<file, importPc, imported>>

\* no second build, no run and no import yet
NotBuiltAgain == [built |-> "none", dag |-> NewGraph({})]
NoFile == [ext |-> ""]
Untouched ==
    /\ again = NotBuiltAgain
    /\ passes = <<>>
    /\ file = NoFile
    /\ importPc = "idle"
    /\ imported = NoFile

runVars == <<runPc, sorted, values, calls, runErr>>

Init ==
    \E n \in NodeIds :
      LET ids == 1..n IN
      \E names \in [ids -> Kinds] :
        \E els \in ElementAssignments(names, n, ids) :
          \E edges \in EdgeSets(ids) :
            /\ SumLen(els) <= MaxContained
            /\ ContainmentAcyclic(els)
            /\ config = [name |-> names, elements |-> els,
                         conns |-> ConnectionsOf(edges, ids),
                         cases |-> [i \in ids |-> 0],
                         args |-> CasesArgs(names)]
            /\ data = DataOf(config)
            /\ Untouched
            /\ built = "none"
            /\ dag = NewGraph({})
            /\ registry = {}
            /\ runPc = "idle"
            /\ sorted = <<>>
            /\ values = NoValues
            /\ calls = <<>>
            /\ runErr = ""
            /\ programs = <<>>
            /\ lst = <<>>
            /\ dedupPc = "idle"
            /\ result = <<>>
            /\ HubIdle

\* dag = build_dag(config)
Build ==
    /\ built = "none"
    /\ \E g \in {BuildDag(config, registry, data)} :
          /\ dag' = g
          /\ registry' = g.reg
          /\ data' = g.data
          /\ built' = IF g.err = "" THEN "ok" ELSE g.err
    /\ UNCHANGED <<config, runVars, programs, dedupVars, hubVars, again, passes, importVars>>

\* dag.run()
Run ==
    /\ built = "ok"
    /\ runPc = "idle"
    /\ \E r \in {RunGraph(dag, config)} :
          /\ sorted' = SortedNodes(dag)
          /\ values' = r.values
          /\ calls' = r.calls
          /\ runErr' = r.err
          /\ runPc' = IF r.err = "" THEN "done" ELSE "failed"
          /\ passes' = Append(passes, [calls |-> r.calls, seen |-> r.seen, err |-> r.err])
    /\ UNCHANGED <<config, built, dag, registry, programs, dedupVars, hubVars,
                   data, again, importVars>>

\* dag.compile(**kw)
Compile ==
    /\ built = "ok"
    /\ Len(programs) < MaxCompiles
    /\ \E kw \in KwargChoices :
         LET g == CompileGraph(dag, kw)
         IN /\ dag' = g
            /\ programs' = Append(programs, [kwargs |-> kw, text |-> Script(g)])
    /\ UNCHANGED <<config, built, registry, runVars, dedupVars, hubVars,
                   data, again, passes, importVars>>

Next == Build \/ Run \/ Compile

Spec == Init /\ [][Next]_vars

(***************************************************************************)
(* remove_duplicates_from_end on its own: the emitted import lines are     *)
(* drawn from a small alphabet.                                            *)
(***************************************************************************)
ImportLines == {"import a", "import b", "import c"}

InitDedup ==
    /\ lst \in SeqsUpTo(ImportLines, MaxImportLines)
    /\ dedupPc = "idle"
    /\ result = <<>>
    /\ config = [name |-> <<>>, elements |-> <<>>, conns |-> <<>>, cases |-> <<>>,
                 args |-> <<>>]
    /\ data = <<>>
    /\ Untouched
    /\ built = "none"
    /\ dag = NewGraph({})
    /\ registry = {}
    /\ runPc = "idle"
    /\ sorted = <<>>
    /\ values = NoValues
    /\ calls = <<>>
    /\ runErr = ""
    /\ programs = <<>>
    /\ HubIdle

\* new_imports = remove_duplicates_from_end(lines)
Dedup ==
    /\ dedupPc = "idle"
    /\ result' = remove_duplicates_from_end(lst)
    /\ dedupPc' = "done"
    /\ UNCHANGED <<lst, config, built, dag, registry, runVars, programs, hubVars,
                   data, again, passes, importVars>>

NextDedup == Dedup

SpecDedup == InitDedup /\ [][NextDedup]_vars

(***************************************************************************)
(* Notions the claims are stated in, read off the configuration.           *)
(***************************************************************************)
Ids == DOMAIN config.name

\* the flow connections the configuration declares
FlowEdges == {e \in Ids \X Ids : e[2] \in Range(config.conns[e[1]])}

FlowPreds(n) == {u \in Ids : <<u, n>> \in FlowEdges}

\* the contained (excluded) nodes: listed in the elements of a node that is no Copy
Excluded ==
    {d \in Ids : \E c \in Ids : /\ NodeTypeOf(config.name[c]) # "COPY"
                                /\ d \in Range(config.elements[c])}

NonExcluded == Ids \ Excluded

RECURSIVE ReachesIn(_, _, _, _)
\* a path of at least one flow edge from a to b that stays inside S
ReachesIn(S, a, b, fuel) ==
    /\ fuel > 0
    /\ a \in S
    /\ b \in S
    /\ \/ <<a, b>> \in FlowEdges
       \/ \E c \in S : <<a, c>> \in FlowEdges /\ ReachesIn(S, c, b, fuel - 1)

HasFlowCycleIn(S) == \E n \in S : ReachesIn(S, n, n, Cardinality(Ids))

RunEnded == runPc \in {"done", "failed"}

\* the positions of the last run() at which node n was executed
CallsOf(n) == {i \in DOMAIN calls : calls[i].node = n}

(***************************************************************************)
(* C1: for every acyclic configuration, build followed by run executes at  *)
(* top level exactly the non-excluded nodes: each non-excluded node once,  *)
(* no excluded node, every node after all of its flow predecessors.        *)
(***************************************************************************)
C1_RunExecutesNonExcludedOnce ==
    RunEnded =>
      /\ \A n \in NonExcluded : Cardinality(CallsOf(n)) = 1
      /\ \A n \in Excluded : CallsOf(n) = {}
      /\ \A i \in DOMAIN calls :
           \A p \in FlowPreds(calls[i].node) : \E j \in 1..(i - 1) : calls[j].node = p

(***************************************************************************)
(* C2: run fails with TooManyPredecessors whenever a scheduled node has    *)
(* more than one flow predecessor, and never executes such a node.         *)
(***************************************************************************)
C2_TooManyPredecessorsRaised ==
    (RunEnded /\ \E n \in Range(sorted) : Cardinality(FlowPreds(n)) > 1) =>
      /\ runErr = TooManyPredecessors
      /\ \A n \in Range(sorted) : Cardinality(FlowPreds(n)) > 1 => CallsOf(n) = {}

(***************************************************************************)
(* C3: a second compile() of an unchanged graph with the same arguments    *)
(* returns the same program text as the first.                             *)
(***************************************************************************)
C3_CompileDeterministic ==
    \A i, j \in DOMAIN programs :
      programs[i].kwargs = programs[j].kwargs => programs[i].text = programs[j].text

(***************************************************************************)
(* What the generated program does when executed: main() runs the body     *)
(* top to bottom; an init statement binds a variable, an exec statement    *)
(* threads the flow variable through a bound callable.                     *)
(***************************************************************************)
\* the value of a name that is not bound
Undefined == <<0>>

RECURSIVE ApplyVar(_, _, _), ApplyVars(_, _, _)
\* env[v](x) for the callables the init statements bind
ApplyVar(env, v, x) ==
    CASE env[v].stmt = "var = DialogAgent" -> Append(x, env[v].arg)
      [] env[v].stmt = "var = SequentialPipeline" -> ApplyVars(env, env[v].deps, x)
      [] OTHER -> None

ApplyVars(env, vs, x) ==
    IF vs = <<>> THEN x ELSE ApplyVars(env, Tail(vs), ApplyVar(env, Head(vs), x))

\* one statement of main(); st = [flow, env, err], err after a NameError
ProgramStep(st, line) ==
    IF st.err THEN st
    ELSE CASE line.stmt = "flow = None" -> [st EXCEPT !.flow = None]
           [] line.stmt = "flow = Msg" -> [st EXCEPT !.flow = <<line.arg>>]
           [] line.stmt = "var = DialogAgent" ->
                 [st EXCEPT !.env = (line.var :> line) @@ @]
           [] line.stmt = "var = SequentialPipeline" ->
                 IF \A i \in DOMAIN line.deps : line.deps[i] \in DOMAIN st.env
                 THEN [st EXCEPT !.env = (line.var :> line) @@ @]
                 ELSE [st EXCEPT !.err = TRUE]
           [] line.stmt = "flow = var(flow)" ->
                 IF line.var \in DOMAIN st.env /\ st.flow # Undefined
                 THEN [st EXCEPT !.flow = ApplyVar(st.env, line.var, st.flow)]
                 ELSE [st EXCEPT !.err = TRUE]
           [] OTHER -> st

RECURSIVE ProgramState(_, _)
\* the state of main() when it reaches statement k of the body
ProgramState(body, k) ==
    IF k <= 1 THEN [flow |-> Undefined, env |-> [v \in {} |-> EmptyLine], err |-> FALSE]
    ELSE ProgramStep(ProgramState(body, k - 1), body[k - 1])

\* the value of the flow variable the program hands to statement k
FlowAt(body, k) ==
    LET st == ProgramState(body, k) IN IF st.err THEN Undefined ELSE st.flow

\* the position in a program body of the exec statement of the i-th scheduled
\* node, for the first compile() of a graph
ExecPos(g, i) == Len(g.inits) + 1 + i

(***************************************************************************)
(* C4: for every acyclic configuration in which each node has at most one  *)
(* flow predecessor, the value the generated program hands to each         *)
(* scheduled node (the flow variable at the node's exec statement) is the  *)
(* value run() hands to it.                                                *)
(***************************************************************************)
C4_ProgramEquivalentToRun ==
    (/\ runPc = "done"
     /\ Len(programs) >= 1
     /\ \A n \in Ids : Cardinality(FlowPreds(n)) <= 1) =>
      LET body == programs[1].text.body
      IN \A i \in DOMAIN sorted :
           body[ExecPos(dag, i)].stmt = "flow = var(flow)" =>
             FlowAt(body, ExecPos(dag, i)) = calls[i].x

(***************************************************************************)
(* C5: with one Message node M flowing into one Agent node A, run() hands  *)
(* M's payload to A, and every generated program assigns M's payload to    *)
(* the flow variable before the statement that calls A on it, so that A    *)
(* is called on M's payload there as well.                                 *)
(***************************************************************************)
\* the configuration holds Message m, Agent a, otherwise only Model nodes, and
\* the one connection m -> a
IsMsgAgentConfig(m, a) ==
    /\ config.name[m] = "Message"
    /\ config.name[a] = "DialogAgent"
    /\ \A n \in Ids \ {m, a} : NodeTypeOf(config.name[n]) = "MODEL"
    /\ FlowEdges = {<<m, a>>}

IsMsgAssign(line, m) == line.stmt = "flow = Msg" /\ line.arg = m

IsCallOf(line, n) == line.stmt = "flow = var(flow)" /\ line.var = VarName(config.name[n], n)

C5_MessageThenAgent ==
    \A m, a \in Ids :
      (IsMsgAgentConfig(m, a) /\ built # "none") =>
        /\ built = "ok"
        /\ RunEnded => (runPc = "done" /\ \E i \in DOMAIN calls : calls[i] = [node |-> a, x |-> <<m>>])
        /\ \A k \in DOMAIN programs :
             LET body == programs[k].text.body
                 assigns == {i \in DOMAIN body : IsMsgAssign(body[i], m)}
                 callsA == {j \in DOMAIN body : IsCallOf(body[j], a)}
             IN /\ assigns # {}
                /\ callsA # {}
                /\ \A i \in assigns, j \in callsA : i < j
                /\ \E j \in callsA : (\A j2 \in callsA : j <= j2) /\ FlowAt(body, j) = <<m>>

C5_Witness ==
    /\ \E m, a \in Ids : IsMsgAgentConfig(m, a)
    /\ runPc = "done"
    /\ Len(programs) >= 1

(***************************************************************************)
(* C6: build on a configuration whose flow edges form a cycle among        *)
(* non-excluded nodes (a node wired to itself included) fails with         *)
(* CyclicWorkflow and returns no graph.  The descriptors explored are      *)
(* valid one by one, so no constructor fails first.                        *)
(***************************************************************************)
C6_CycleRejected ==
    (built # "none" /\ HasFlowCycleIn(NonExcluded)) => built = CyclicWorkflow

C6_Witness ==
    /\ built = CyclicWorkflow
    /\ \E n \in NonExcluded : <<n, n>> \in FlowEdges

(***************************************************************************)
(* C7 as claimed: a configuration all of whose flow cycles pass through    *)
(* an excluded node is not rejected with CyclicWorkflow.                   *)
(***************************************************************************)
C7_OnlyNonExcludedCyclesRejected ==
    (built # "none" /\ ~HasFlowCycleIn(NonExcluded)) => built # CyclicWorkflow

(***************************************************************************)
(* C7 amended: the acyclicity check of build considers the whole flow      *)
(* graph, excluded nodes included: build fails with CyclicWorkflow exactly *)
(* when the flow edges form a cycle among any nodes.                       *)
(***************************************************************************)
C7_AnyCycleRejected ==
    built # "none" => (built = CyclicWorkflow <=> HasFlowCycleIn(Ids))

C7_Witness ==
    /\ built = CyclicWorkflow
    /\ ~HasFlowCycleIn(NonExcluded)

(***************************************************************************)
(* C8: when build fails with CyclicWorkflow the registry is not left       *)
(* partially mutated: no descriptor lies beyond the point of the failure   *)
(* (all are vertices already), and the registry holds exactly the          *)
(* registrations of the Model nodes of the configuration.                  *)
(***************************************************************************)
ModelIds == {n \in Ids : NodeTypeOf(config.name[n]) = "MODEL"}

C8_NoRegistrationBeyondFailure ==
    built = CyclicWorkflow =>
      /\ Ids \subseteq Range(dag.nodes)
      /\ registry \subseteq Range(dag.nodes)
      /\ registry = ModelIds

C8_Witness ==
    /\ built = CyclicWorkflow
    /\ Cardinality(registry) >= 2

(***************************************************************************)
(* C10: in the init section of the graph and of every generated program    *)
(* the init fragment of every Model node comes after the root              *)
(* initialization call and before the init fragment of every other node.   *)
(***************************************************************************)
IsRootInit(line) ==
    line.stmt \in {"agentscope.init(logger_level=DEBUG)",
                   "agentscope.init(logger_level=DEBUG, kwargs)"}

IsModelInit(line) == line.stmt = "ModelManager.load_model_configs"

\* the init fragment of a node that is no Model node
IsOtherInit(line) ==
    line.stmt \in {"flow = Msg", "var = DialogAgent", "var = SequentialPipeline", "",
                   "var = ReActAgent", "var = partial(bing_search)", "var = _ForLoopPipeline",
                   "var = _WhileLoopPipeline", "var = _IfElsePipeline", "var = _SwitchPipeline"}

ModelInitsFirst(lines) ==
    /\ \A n \in ModelIds :
         \E i \in DOMAIN lines : IsModelInit(lines[i]) /\ lines[i].arg = n
    /\ \A i \in DOMAIN lines :
         IsModelInit(lines[i]) =>
           /\ \E r \in 1..(i - 1) : IsRootInit(lines[r])
           /\ \A j \in 1..(i - 1) : ~IsOtherInit(lines[j])

C10_ModelInitsFirst ==
    built = "ok" =>
      /\ ModelInitsFirst(dag.inits)
      /\ \A k \in DOMAIN programs :
           ModelInitsFirst(SubSeq(programs[k].text.body, 1, Len(dag.inits)))

C10_Witness ==
    /\ built = "ok"
    /\ Len(programs) >= 1
    /\ Cardinality(ModelIds) >= 2
    /\ \E n \in Ids \ ModelIds : \E m \in ModelIds : n < m

(***************************************************************************)
(* C9: import deduplication keeps, for every distinct line, exactly one    *)
(* copy, at the position of its last occurrence, in the order of the kept  *)
(* lines: [A, B, A, C] becomes [B, A, C].                                  *)
(***************************************************************************)
\* the positions of a list that hold the last occurrence of their element
LastPositions(s) == {i \in DOMAIN s : \A j \in (i + 1)..Len(s) : s[j] # s[i]}

\* the elements of s at the positions P, in the order of the positions
SubSeqAt(s, P) == LET pos == SortedSeq(P) IN [k \in DOMAIN pos |-> s[pos[k]]]

MaxDeps == 3
\* most labels in data.args.cases of a SwitchPipeline descriptor
MaxCases == 2

BuildKinds ==
    {"dashscope_chat", "DialogAgent", "ReActAgent", "BingSearchService",
     "SequentialPipeline", "ForLoopPipeline", "WhileLoopPipeline", "IfElsePipeline",
     "SwitchPipeline", "CopyNode"}

DepKinds == {"dashscope_chat", "DialogAgent", "BingSearchService", "SequentialPipeline"}

RECURSIVE BuildElementAssignments(_, _, _)
\* the element lists of descriptors 1..k, with at most budget entries in all
BuildElementAssignments(k, ids, budget) ==
    IF k = 0 THEN {<<>>}
    ELSE UNION {{Append(p, e) : p \in BuildElementAssignments(k - 1, ids, budget - Len(e))} :
                  e \in SeqsUpTo(ids \ {k}, budget)}

\* len(data.args.cases) of each descriptor
CaseCounts(names, ids) ==
    {c \in [ids -> 0..MaxCases] : \A i \in ids : names[i] # "SwitchPipeline" => c[i] = 0}

InitBuild ==
    \E n \in NodeIds :
      LET ids == 1..n IN
      \E names \in {f \in [ids -> BuildKinds] : \A i \in ids \ {1} : f[i] \in DepKinds} :
        \E els \in BuildElementAssignments(n, ids, MaxDeps) :
          \E cs \in CaseCounts(names, ids) :
            /\ SumLen(els) <= MaxDeps
            /\ ContainmentAcyclic(els)
            /\ config = [name |-> names, elements |-> els,
                         conns |-> [i \in ids |-> <<>>], cases |-> cs,
                         args |-> CasesArgs(names)]
            /\ data = DataOf(config)
            /\ Untouched
            /\ built = "none"
            /\ dag = NewGraph({})
            /\ registry = {}
            /\ runPc = "idle"
            /\ sorted = <<>>
            /\ values = NoValues
            /\ calls = <<>>
            /\ runErr = ""
            /\ programs = <<>>
            /\ lst = <<>>
            /\ dedupPc = "idle"
            /\ result = <<>>
            /\ HubIdle

NextBuild == Build

SpecBuild == InitBuild /\ [][NextBuild]_vars

\* the position at which node n was constructed during build (0: it was not)
ConstructedAt(n) ==
    IF \E i \in DOMAIN dag.constructed : dag.constructed[i] = n
    THEN CHOOSE i \in DOMAIN dag.constructed : dag.constructed[i] = n
    ELSE 0

\* the nodes some descriptor lists as an element
Contained == {d \in Ids : \E c \in Ids : d \in Range(config.elements[c])}

(***************************************************************************)
(* C11: during build every Model node is constructed before any non-Model  *)
(* node, whatever the descriptor order and the containment structure; in   *)
(* each of the two groups the nodes built at top level follow descriptor   *)
(* order.                                                                  *)
(***************************************************************************)
C11_ModelsConstructedFirst ==
    built # "none" =>
      /\ \A i, j \in DOMAIN dag.constructed :
           (/\ NodeTypeOf(config.name[dag.constructed[i]]) = "MODEL"
            /\ NodeTypeOf(config.name[dag.constructed[j]]) # "MODEL") => i < j
      /\ \A a, b \in Ids \ Contained :
           (/\ a < b
            /\ (NodeTypeOf(config.name[a]) = "MODEL") = (NodeTypeOf(config.name[b]) = "MODEL")
            /\ ConstructedAt(b) # 0) =>
             (ConstructedAt(a) # 0 /\ ConstructedAt(a) < ConstructedAt(b))

(***************************************************************************)
(* C12: during one build each node id is constructed at most once, and     *)
(* exactly once when build returns: a node listed by several containers,   *)
(* several times by one, or by a container and at top level, is one        *)
(* instance every referrer holds, with one import entry and one init       *)
(* entry in the graph.                                                     *)
(***************************************************************************)
C12_ConstructedOnce ==
    /\ built # "none" =>
         \A n \in Ids :
           Cardinality({i \in DOMAIN dag.constructed : dag.constructed[i] = n}) <= 1
    /\ built = "ok" =>
         /\ \A n \in Ids :
              Cardinality({i \in DOMAIN dag.constructed : dag.constructed[i] = n}) = 1
         /\ \A c \in Ids :
              dag.dep_opts[c] \o (IF dag.switch[c].default = Placeholder
                                  THEN <<>> ELSE <<dag.switch[c].default>>)
                = config.elements[c]
         /\ Len(dag.imports) = 1 + Cardinality(Ids)
         /\ Len(dag.inits) = 2 + Cardinality(Ids)

C12_Witness ==
    /\ built = "ok"
    /\ \E n, c1, c2 \in Ids :
         /\ c1 < n
         /\ n < c2
         /\ n \in Range(config.elements[c1])
         /\ n \in Range(config.elements[c2])
         /\ Cardinality({i \in DOMAIN config.elements[c1] : config.elements[c1][i] = n}) = 2

(***************************************************************************)
(* C13 as claimed: after build every contained node is in the excluded     *)
(* set unless its own kind is Copy; a contained Copy node is not excluded. *)
(***************************************************************************)
C13_ContainedExcludedUnlessCopy ==
    built = "ok" =>
      \A d \in Contained :
        IF NodeTypeOf(config.name[d]) = "COPY"
        THEN d \notin dag.nodes_not_in_graph
        ELSE d \in dag.nodes_not_in_graph

(***************************************************************************)
(* C13 amended: after build the excluded set holds exactly the ids that a  *)
(* node of a kind other than Copy lists as an element, whatever the kind   *)
(* of the contained node: a Copy node contained in a sequential pipeline   *)
(* is excluded and is not scheduled at top level.                          *)
(***************************************************************************)
C13_ExcludedByContainerKind ==
    built = "ok" =>
      /\ dag.nodes_not_in_graph = Excluded
      /\ \A d \in Contained :
           (/\ NodeTypeOf(config.name[d]) = "COPY"
            /\ \E c \in Ids : /\ config.name[c] = "SequentialPipeline"
                              /\ d \in Range(config.elements[c]))
           => (d \in dag.nodes_not_in_graph /\ d \notin Range(SortedNodes(dag)))

C13_Witness ==
    /\ built = "ok"
    /\ \E d, c \in Ids :
         /\ NodeTypeOf(config.name[d]) = "COPY"
         /\ config.name[c] = "SequentialPipeline"
         /\ d \in Range(config.elements[c])
         /\ d \in dag.nodes_not_in_graph

(***************************************************************************)
(* C14: being the dependency of a Copy node never marks a node as          *)
(* excluded: a node whose only containers are Copy nodes is not in the     *)
(* excluded set after build and is in the top-level order of run() and of  *)
(* compile().                                                              *)
(***************************************************************************)
\* n is listed as an element, and only by Copy nodes
OnlyCopyContainers(n) ==
    /\ n \in Contained
    /\ \A c \in Ids : n \in Range(config.elements[c]) => NodeTypeOf(config.name[c]) = "COPY"

C14_CopyDependencyScheduled ==
    built = "ok" =>
      \A n \in Ids :
        OnlyCopyContainers(n) =>
          /\ n \notin dag.nodes_not_in_graph
          /\ n \in Range(SortedNodes(dag))
          /\ runPc # "idle" => n \in Range(sorted)
          /\ Len(programs) >= 1 =>
               \E i \in DOMAIN SortedNodes(dag) :
                 /\ SortedNodes(dag)[i] = n
                 /\ programs[1].text.body[ExecPos(dag, i)] = dag.compile_execs[n]

C14_Witness ==
    /\ built = "ok"
    /\ runPc # "idle"
    /\ Len(programs) >= 1
    /\ \E n \in Ids :
         /\ OnlyCopyContainers(n)
         /\ config.name[n] = "DialogAgent"
         /\ n \in Range(sorted)

(***************************************************************************)
(* Switch nodes whose dependencies are all operators (agents, pipelines).  *)
(***************************************************************************)
\* the errors build raises for a descriptor whose dependencies do not fit its kind
ConfigurationErrors == {"ValueError", "AssertionError"}

IsSwitchOverOperators(s) ==
    /\ config.name[s] = "SwitchPipeline"
    /\ \A i \in DOMAIN config.elements[s] : HasPipeline(config.name[config.elements[s][i]])

\* what the law says a switch with deps and n labels binds
BindsInOrder(s, deps, n) ==
    /\ dag.switch[s].cases = SubSeq(deps, 1, n)
    /\ dag.switch[s].default = IF Len(deps) = n THEN Placeholder ELSE deps[n + 1]

(***************************************************************************)
(* C15 as claimed: for a switch with N labels (N >= 0) and D dependencies  *)
(* build succeeds exactly when D = N or D = N + 1, binding dependency i to *)
(* label i and taking the placeholder (D = N) or the last dependency       *)
(* (D = N + 1) as default; for every other D it fails with a configuration *)
(* error.                                                                  *)
(***************************************************************************)
C15_SwitchArityLaw ==
    \A s \in Ids :
      (built # "none" /\ IsSwitchOverOperators(s)) =>
        LET deps == config.elements[s]
            n == config.cases[s]
        IN IF Len(deps) \in {n, n + 1}
           THEN built = "ok" /\ BindsInOrder(s, deps, n)
           ELSE built \in ConfigurationErrors

(***************************************************************************)
(* C15 amended: a switch needs at least one dependency.  For N labels and  *)
(* D dependencies that are operators, build succeeds exactly when D >= 1   *)
(* and D = N or D = N + 1, with the bindings as above; for every other D,  *)
(* D = 0 with N = 0 included, build fails with a configuration error and   *)
(* the switch is not added to the graph.                                   *)
(***************************************************************************)
C15_SwitchArityLawAtLeastOne ==
    \A s \in Ids :
      (built # "none" /\ IsSwitchOverOperators(s)) =>
        LET deps == config.elements[s]
            n == config.cases[s]
        IN IF Len(deps) >= 1 /\ Len(deps) \in {n, n + 1}
           THEN built = "ok" /\ BindsInOrder(s, deps, n)
           ELSE built \in ConfigurationErrors /\ ~HasNode(dag, s)

C15_Witness ==
    /\ built = "ok"
    /\ \E s \in Ids :
         /\ IsSwitchOverOperators(s)
         /\ config.cases[s] = 2
         /\ Len(config.elements[s]) = 3
         /\ dag.switch[s].default = config.elements[s][3]

(***************************************************************************)
(* C16: a for-loop, while-loop or copy node builds only with exactly one   *)
(* dependency, an if/else node only with one or two (if-branch first,      *)
(* else-branch second); with any other count build fails with a            *)
(* configuration error and the node is not added to the graph.             *)
(***************************************************************************)
\* the numbers of dependencies the kind of a fixed-arity node admits
AdmittedArities(name) ==
    IF name = "IfElsePipeline" THEN {1, 2} ELSE {1}

C16_FixedArityEnforced ==
    \A s \in Ids :
      (/\ built # "none"
       /\ config.name[s] \in {"ForLoopPipeline", "WhileLoopPipeline", "CopyNode",
                              "IfElsePipeline"}) =>
        IF Len(config.elements[s]) \in AdmittedArities(config.name[s])
        THEN /\ built = "ok"
             /\ HasNode(dag, s)
             /\ dag.dep_opts[s] = config.elements[s]
        ELSE /\ built \in ConfigurationErrors
             /\ ~HasNode(dag, s)
             /\ ConstructedAt(s) = 0

C16_Witness ==
    /\ built \in ConfigurationErrors
    /\ \E s \in Ids :
         /\ config.name[s] = "IfElsePipeline"
         /\ Len(config.elements[s]) = 3
         /\ ~HasNode(dag, s)

(***************************************************************************)
(* C17: a ReAct agent node is constructed only if every one of its         *)
(* dependencies has the callable-tool capability; otherwise build fails    *)
(* with TypeMismatch before the construction completes, and the agent is   *)
(* neither a vertex of the graph nor in the init section.                  *)
(***************************************************************************)
TypeMismatch == "TypeError"

C17_ToolsRequired ==
    \A s \in Ids :
      (built # "none" /\ config.name[s] = "ReActAgent") =>
        IF \A i \in DOMAIN config.elements[s] :
             HasServiceFunc(config.name[config.elements[s][i]])
        THEN built = "ok" /\ HasNode(dag, s)
        ELSE /\ built = TypeMismatch
             /\ ~HasNode(dag, s)
             /\ ConstructedAt(s) = 0
             /\ \A i \in DOMAIN dag.inits : dag.inits[i].stmt # "var = ReActAgent"

C17_Witness ==
    /\ built = TypeMismatch
    /\ \E s \in Ids :
         /\ config.name[s] = "ReActAgent"
         /\ \E i, j \in DOMAIN config.elements[s] :
              /\ HasServiceFunc(config.name[config.elements[s][i]])
              /\ ~HasServiceFunc(config.name[config.elements[s][j]])
         /\ ~HasNode(dag, s)

(***************************************************************************)
(* The MsgHub node: MsgHubNode.__init__ with get_all_agents, and           *)
(* MsgHubNode.__call__.  Descriptor 1 is the MsgHub node and descriptor 2  *)
(* its one dependency; the participants of a SequentialPipeline are its    *)
(* operators, in order.                                                    *)
(***************************************************************************)
\* most descriptors of a MsgHub configuration
MaxHubNodes == 4
\* most entries of data.elements over the pipelines under a MsgHub node
MaxParticipants == 3

HubKinds == {"DialogAgent", "SequentialPipeline", "Message"}

\* the WorkflowNode built from descriptor i, and the agent it wraps (its .pipeline)
NodeObj(i) == <<"node", i>>
AgentObj(i) == <<"agent", i>>

RECURSIVE GetAllAgents(_, _, _, _), CollectLoop(_, _, _, _, _)
\* get_all_agents(node, seen_agents, return_var): the list returned, the set
\* seen_agents as it is left, and the error raised if any
GetAllAgents(cfg, node, seen, return_var) ==
    CollectLoop(cfg, cfg.elements[node], seen, <<>>, return_var)

\* the loop "for participant in node.pipeline.participants"
CollectLoop(cfg, parts, seen, all, return_var) ==
    IF parts = <<>> THEN [agents |-> all, seen |-> seen, err |-> ""]
    ELSE
      LET p == Head(parts)
          type == NodeTypeOf(cfg.name[p])
      IN CASE type = "AGENT" ->
                IF NodeObj(p) \notin seen
                THEN CollectLoop(cfg, Tail(parts), seen \cup {AgentObj(p)},
                                 Append(all, IF return_var THEN VarName(cfg.name[p], p)
                                                           ELSE AgentObj(p)),
                                 return_var)
                ELSE CollectLoop(cfg, Tail(parts), seen, all, return_var)
           [] type = "PIPELINE" ->
                LET r == GetAllAgents(cfg, p, seen, return_var)
                IN IF r.err # "" THEN [agents |-> all, seen |-> r.seen, err |-> r.err]
                   ELSE CollectLoop(cfg, Tail(parts), r.seen, all \o r.agents, return_var)
           [] OTHER -> [agents |-> all, seen |-> seen, err |-> "TypeError"]

\* as CollectVars, but a variable name is kept at its first occurrence only
CollectVars_Dedup(cfg, node) ==
    [GetAllAgents(cfg, node, {}, TRUE) EXCEPT !.agents = DedupLoop(@, {}, <<>>)]

\* get_all_agents(self.pipeline, return_var=True)
CollectVars(cfg, node) == GetAllAgents(cfg, node, {}, TRUE)

\* MsgHubNode.__init__ for the dependencies deps: the two lists and the error raised
NewMsgHub(cfg, deps) ==
    IF ~(Len(deps) = 1 /\ HasPipeline(cfg.name[deps[1]]))
    THEN [participants |-> <<>>, participants_var |-> <<>>, err |-> "AssertionError"]
    ELSE LET r1 == GetAllAgents(cfg, deps[1], {}, FALSE)
             r2 == CollectVars(cfg, deps[1])
         IN IF r1.err # ""
            THEN [participants |-> <<>>, participants_var |-> <<>>, err |-> r1.err]
            ELSE [participants |-> r1.agents, participants_var |-> r2.agents, err |-> r2.err]

\* the steps of "with msghub(...): x = self.pipeline(x)"
Enter(st) == [ctx |-> "open", log |-> Append(st.log, [ev |-> "enter", ctx |-> st.ctx])]

Delegate(st, raises) ==
    [st EXCEPT !.log = Append(@, [ev |-> IF raises THEN "raise" ELSE "return",
                                  ctx |-> st.ctx])]

Exit(st) == [ctx |-> "closed", log |-> Append(st.log, [ev |-> "exit", ctx |-> st.ctx])]

\* as WithMsghub, but the context is left only when the call returns
WithMsghub_ExitOnReturnOnly(st, raises) ==
    IF raises THEN Delegate(Enter(st), raises) ELSE Exit(Delegate(Enter(st), raises))

\* MsgHubNode.__call__: the with statement leaves the context on both paths
WithMsghub(st, raises) == Exit(Delegate(Enter(st), raises))

RECURSIVE HubElementAssignments(_, _, _, _)
\* the element lists of descriptors 1..k: the MsgHub node lists descriptor 2, the
\* pipelines list at most budget entries in all
HubElementAssignments(names, k, ids, budget) ==
    IF k = 1 THEN {<< <<2>> >>}
    ELSE UNION {{Append(p, e) : p \in HubElementAssignments(names, k - 1, ids,
                                                            budget - Len(e))} :
                  e \in IF names[k] = "SequentialPipeline"
                        THEN SeqsUpTo(ids \ {1, k}, budget)
                        ELSE {<<>>}}

InitHub ==
    /\ \E n \in 2..MaxHubNodes :
         LET ids == 1..n IN
         \E names \in {f \in [ids -> HubKinds \cup {"MsgHub"}] :
                         /\ f[1] = "MsgHub"
                         /\ f[2] \in {"SequentialPipeline", "Message"}
                         /\ \A i \in ids \ {1} : f[i] \in HubKinds} :
           \E els \in HubElementAssignments(names, n, ids, MaxParticipants) :
             /\ SumLen(Tail(els)) <= MaxParticipants
             /\ ContainmentAcyclic(els)
             /\ hubCfg = [name |-> names, elements |-> els]
    /\ hubPc = "none"
    /\ participants = <<>>
    /\ participants_var = <<>>
    /\ hubCtx = "closed"
    /\ hubLog = <<>>
    /\ config = [name |-> <<>>, elements |-> <<>>, conns |-> <<>>, cases |-> <<>>,
                 args |-> <<>>]
    /\ data = <<>>
    /\ Untouched
    /\ built = "none"
    /\ dag = NewGraph({})
    /\ registry = {}
    /\ runPc = "idle"
    /\ sorted = <<>>
    /\ values = NoValues
    /\ calls = <<>>
    /\ runErr = ""
    /\ programs = <<>>
    /\ lst = <<>>
    /\ dedupPc = "idle"
    /\ result = <<>>

notHubVars == <<config, built, dag, registry, runPc, sorted, values, calls, runErr,
                programs, lst, dedupPc, result, data, again, passes, file, importPc,
                imported>>

\* MsgHubNode(node_id, opt_kwargs, source_kwargs, dep_opts)
HubConstruct ==
    /\ hubPc = "none"
    /\ LET h == NewMsgHub(hubCfg, hubCfg.elements[1])
       IN /\ participants' = h.participants
          /\ participants_var' = h.participants_var
          /\ hubPc' = IF h.err = "" THEN "built" ELSE "failed"
    /\ UNCHANGED <<hubCfg, hubCtx, hubLog, notHubVars>>

\* the MsgHub node is executed; the call of its dependency returns or raises
HubCall ==
    /\ hubPc = "built"
    /\ \E raises \in BOOLEAN :
         LET st == WithMsghub([ctx |-> hubCtx, log |-> hubLog], raises)
         IN /\ hubCtx' = st.ctx
            /\ hubLog' = st.log
            /\ hubPc' = IF raises THEN "raised" ELSE "returned"
    /\ UNCHANGED <<hubCfg, participants, participants_var, notHubVars>>

\* the node executed next, after the MsgHub node returned or raised
HubNext ==
    /\ hubPc \in {"returned", "raised"}
    /\ hubLog' = Append(hubLog, [ev |-> "next", ctx |-> hubCtx])
    /\ hubPc' = "next"
    /\ UNCHANGED <<hubCfg, participants, participants_var, hubCtx, notHubVars>>

NextHub == HubConstruct \/ HubCall \/ HubNext

SpecHub == InitHub /\ [][NextHub]_vars

RECURSIVE Leaves(_, _)
\* the Agent nodes met by a depth-first walk of the containment tree below node,
\* in the order met, each as often as it is met
Leaves(cfg, parts) ==
    IF parts = <<>> THEN <<>>
    ELSE LET p == Head(parts)
             here == CASE NodeTypeOf(cfg.name[p]) = "AGENT" -> <<p>>
                       [] NodeTypeOf(cfg.name[p]) = "PIPELINE" -> Leaves(cfg, cfg.elements[p])
                       [] OTHER -> <<>>
         IN here \o Leaves(cfg, Tail(parts))

HubBuilt == hubPc \notin {"none", "failed"}

(***************************************************************************)
(* C18: the participants collected for a MsgHub node hold every Agent      *)
(* node reachable through the containment tree exactly once, at the        *)
(* position of its first depth-first encounter.                            *)
(***************************************************************************)
C18_ParticipantsDeduplicated ==
    HubBuilt =>
      LET first == DedupLoop(Leaves(hubCfg, hubCfg.elements[2]), {}, <<>>)
      IN participants = [i \in DOMAIN first |-> AgentObj(first[i])]

(***************************************************************************)
(* C19: collecting twice on an unchanged containment tree yields the same  *)
(* list in the same order: the participants and the participant variable   *)
(* names built at construction have equal length and refer position by     *)
(* position to the same agent nodes.                                       *)
(***************************************************************************)
C19_CollectionIdempotent ==
    HubBuilt =>
      /\ GetAllAgents(hubCfg, 2, {}, FALSE).agents = participants
      /\ GetAllAgents(hubCfg, 2, {}, TRUE).agents = participants_var
      /\ Len(participants) = Len(participants_var)
      /\ \A i \in DOMAIN participants :
           \E k \in DOMAIN hubCfg.name :
             /\ participants[i] = AgentObj(k)
             /\ participants_var[i] = VarName(hubCfg.name[k], k)

C19_Witness ==
    /\ HubBuilt
    /\ Len(participants) = 3
    /\ \E i, j \in DOMAIN participants : i # j /\ participants[i] = participants[j]
    /\ \E i, j \in DOMAIN participants : participants[i] # participants[j]

(***************************************************************************)
(* C20: executing a MsgHub node enters the broadcast context before it     *)
(* calls its dependency and leaves it on every path: after the execution   *)
(* returned or raised the context is closed, and it is closed when the     *)
(* next node is executed.                                                  *)
(***************************************************************************)
C20_ContextAlwaysExited ==
    hubPc \in {"returned", "raised", "next"} =>
      /\ hubCtx = "closed"
      /\ Len(hubLog) >= 3
      /\ hubLog[1] = [ev |-> "enter", ctx |-> "closed"]
      /\ hubLog[2].ev \in {"return", "raise"}
      /\ hubLog[2].ctx = "open"
      /\ hubLog[3] = [ev |-> "exit", ctx |-> "open"]
      /\ hubPc = "next" => hubLog[4] = [ev |-> "next", ctx |-> "closed"]

C20_Witness ==
    /\ hubPc = "next"
    /\ hubLog[2].ev = "raise"
    /\ hubCtx = "closed"

(***************************************************************************)
(* Descriptors with parameters: build_dag sanitizes them, the constructors *)
(* receive the dictionaries of the configuration itself, and the same      *)
(* configuration object may be handed to build_dag once more.              *)
(***************************************************************************)
ArgsIds == {1, 2}
ParamKeys == {"sys_prompt", "condition_func"}
ParamValues == {"", "You are helpful", "lambda x: x"}
ArgsFirstKinds == {"DialogAgent", "SequentialPipeline", "IfElsePipeline", "SwitchPipeline"}
ArgsOtherKinds == {"DialogAgent", "SequentialPipeline"}

\* the dictionaries over some of ParamKeys
ParamDicts == UNION {[K -> ParamValues] : K \in SUBSET ParamKeys}

\* data.args of each descriptor: free parameters, and the labels of a switch
ArgsChoices(names) ==
    {[i \in DOMAIN names |-> a[i] @@ CasesArgs(names)[i]] : a \in [DOMAIN names -> ParamDicts]}

InitArgs ==
    \E n \in ArgsIds :
      LET ids == 1..n IN
      \E names \in {f \in [ids -> ArgsFirstKinds \cup ArgsOtherKinds] :
                      /\ f[1] \in ArgsFirstKinds
                      /\ \A i \in ids \ {1} : f[i] \in ArgsOtherKinds} :
        \E els \in BuildElementAssignments(n, ids, MaxDeps) :
          \E cs \in CaseCounts(names, ids) :
            \E as \in ArgsChoices(names) :
              /\ SumLen(els) <= MaxDeps
              /\ ContainmentAcyclic(els)
              /\ config = [name |-> names, elements |-> els,
                           conns |-> [i \in ids |-> <<>>], cases |-> cs, args |-> as]
              /\ data = DataOf(config)
              /\ Untouched
              /\ built = "none"
              /\ dag = NewGraph({})
              /\ registry = {}
              /\ runPc = "idle"
              /\ sorted = <<>>
              /\ values = NoValues
              /\ calls = <<>>
              /\ runErr = ""
              /\ programs = <<>>
              /\ lst = <<>>
              /\ dedupPc = "idle"
              /\ result = <<>>
              /\ HubIdle

\* build_dag(config) once more, on the configuration object the first call was given
BuildAgain ==
    /\ built = "ok"
    /\ again.built = "none"
    /\ \E g \in {BuildDag(config, registry, data)} :
          /\ again' = [built |-> IF g.err = "" THEN "ok" ELSE g.err, dag |-> g]
          /\ registry' = g.reg
          /\ data' = g.data
    /\ UNCHANGED <<config, built, dag, runVars, programs, dedupVars, hubVars, passes,
                   importVars>>

NextArgs == Build \/ BuildAgain

SpecArgs == InitArgs /\ [][NextArgs]_vars

\* the parameters of a descriptor other than a switch's label list
FreeKeys(d) == DOMAIN d \ {"cases"}

\* C21: once build_dag has sanitized the descriptors, the source parameters of each
\* hold the original value of every parameter that was not "", the operative
\* parameters have the same keys (the parameters holding "" are gone from both), and
\* a parameter whose text denotes a callable holds the evaluated callable in the
\* operative parameters and its unchanged text in the source parameters.
C21_SanitizedParameters ==
    (built # "none" /\ again.built = "none") =>
      \A i \in DOMAIN config.name :
        LET original == config.args[i]
            kept == {k \in FreeKeys(original) : original[k] # ""}
        IN /\ FreeKeys(data[i].source) = kept
           /\ FreeKeys(data[i].args) = kept
           /\ \A k \in kept :
                /\ data[i].source[k] = original[k]
                /\ IF original[k] \in CallableTexts
                   THEN /\ data[i].args[k] = "<function <lambda>>"
                        /\ data[i].args[k] # original[k]
                   ELSE data[i].args[k] = original[k]

\* a descriptor with an empty parameter and a callable text has been sanitized
C21_Witness ==
    /\ built # "none"
    /\ again.built = "none"
    /\ \E i \in DOMAIN config.name :
         /\ DOMAIN config.args[i] = ParamKeys
         /\ config.args[i]["sys_prompt"] = ""
         /\ config.args[i]["condition_func"] \in CallableTexts
         /\ DOMAIN data[i].args = {"condition_func"}

\* the nodes two builds constructed are the same
SameNodes(g, h) ==
    /\ g.constructed = h.constructed
    /\ g.dep_opts = h.dep_opts
    /\ g.switch = h.switch
    /\ g.nodes_not_in_graph = h.nodes_not_in_graph

\* C22: build changes a descriptor by sanitization only: after a build the
\* parameters and source parameters stored in the configuration are the sanitized
\* ones, no key removed by a constructor, and building again from the same
\* configuration object succeeds and constructs the same nodes.
C22_BuildLeavesDescriptorsAlone ==
    /\ (built = "ok" /\ again.built = "none") => data = SanitizeAll(DataOf(config))
    /\ again.built # "none" => (again.built = "ok" /\ SameNodes(again.dag, dag))

\* without a switch node the descriptors are left as sanitized and the second build
\* constructs the same nodes
C22_HoldsWithoutSwitch ==
    ("SwitchPipeline" \notin Range(config.name)) => C22_BuildLeavesDescriptorsAlone

(***************************************************************************)
(* run() called again on a graph that has run.                             *)
(***************************************************************************)
\* most run() calls on one graph
MaxRuns == 2

\* dag.run() after an earlier dag.run()
RunAgain ==
    /\ built = "ok"
    /\ runPc # "idle"
    /\ Len(passes) < MaxRuns
    /\ \E r \in {RunPass(dag, config, values)} :
          /\ sorted' = SortedNodes(dag)
          /\ values' = r.values
          /\ calls' = r.calls
          /\ runErr' = r.err
          /\ runPc' = IF r.err = "" THEN "done" ELSE "failed"
          /\ passes' = Append(passes, [calls |-> r.calls, seen |-> r.seen, err |-> r.err])
    /\ UNCHANGED <<config, built, dag, registry, programs, dedupVars, hubVars,
                   data, again, importVars>>

NextRerun == Build \/ Run \/ RunAgain

SpecRerun == Init /\ [][NextRerun]_vars

\* what a pass recorded: the cache held entries of exactly the nodes executed earlier
\* in the same pass
OwnEntriesOnly(pass) ==
    \A i \in DOMAIN pass.seen : pass.seen[i] = {pass.calls[j].node : j \in 1..(i - 1)}

\* C23: the cache of run() belongs to one pass: when a node executes, the cache holds
\* entries of exactly the nodes executed earlier in the same pass (none at the first
\* call of a pass), every pass makes the same exec_node calls with the same inputs as
\* the first one, and a step that adds a pass leaves the vertices, the flow edges and
\* the excluded set of the graph as they were.
C23_CacheScopedToPass ==
    /\ [](\A p \in DOMAIN passes :
            /\ passes[p].calls = passes[1].calls
            /\ passes[p].err = passes[1].err
            /\ OwnEntriesOnly(passes[p]))
    /\ [][passes' # passes =>
            /\ dag'.nodes = dag.nodes
            /\ dag'.succ = dag.succ
            /\ dag'.pred = dag.pred
            /\ dag'.nodes_not_in_graph = dag.nodes_not_in_graph]_vars

\* a second pass over a graph with a flow edge has returned
C23_Witness ==
    /\ Len(passes) = 2
    /\ runPc = "done"
    /\ Len(passes[2].calls) >= 2
    /\ \E i \in DOMAIN passes[2].calls : passes[2].calls[i].x # None

(***************************************************************************)
(* build_dag as a step that is taken: the resolution of data.elements by   *)
(* add_as_node has to come to an end for the step to exist.                *)
(***************************************************************************)
NestedKinds == {"SequentialPipeline", "DialogAgent"}

\* nested and shared containment among pipelines and agents
InitNested ==
    \E n \in NodeIds :
      LET ids == 1..n IN
      \E names \in [ids -> NestedKinds] :
        \E els \in BuildElementAssignments(n, ids, MaxDeps) :
          /\ SumLen(els) <= MaxDeps
          /\ ContainmentAcyclic(els)
          /\ \A i \in ids : names[i] = "DialogAgent" => els[i] = <<>>
          /\ config = [name |-> names, elements |-> els,
                       conns |-> [i \in ids |-> <<>>], cases |-> [i \in ids |-> 0],
                       args |-> CasesArgs(names)]
          /\ data = DataOf(config)
          /\ Untouched
          /\ built = "none"
          /\ dag = NewGraph({})
          /\ registry = {}
          /\ runPc = "idle"
          /\ sorted = <<>>
          /\ values = NoValues
          /\ calls = <<>>
          /\ runErr = ""
          /\ programs = <<>>
          /\ lst = <<>>
          /\ dedupPc = "idle"
          /\ result = <<>>
          /\ HubIdle

\* the ways build_dag comes back: it returns, or raises one of its errors
BuildEnds ==
    {"ok", "KeyError", "AssertionError", "ValueError", "TypeError", "AttributeError",
     CyclicWorkflow}

\* the call build_dag(config) seen from its caller
BuildCompletes == built = "none" /\ built' \in BuildEnds

\* build_dag is called, and once called it runs
SpecBuildLive == InitNested /\ [][NextBuild]_vars /\ WF_built(BuildCompletes)

\* position of each dependency of n in the order of construction is before n's
DependenciesFirst(n) ==
    \A i \in DOMAIN dag.dep_opts[n] :
      /\ dag.dep_opts[n][i] \in Range(dag.constructed)
      /\ ConstructedAt(dag.dep_opts[n][i]) < ConstructedAt(n)

\* C24: for a configuration whose containment has no cycle, whatever the nesting and
\* the sharing of elements, build_dag comes to an end (it returns or raises); every
\* dependency of a constructed node was constructed before it, depth first, and no
\* constructed node is among its own dependencies.
C24_ResolutionTerminates ==
    /\ <>(built # "none")
    /\ [](built # "none" =>
            \A n \in Range(dag.constructed) :
              /\ n \notin Range(dag.dep_opts[n])
              /\ DependenciesFirst(n))

\* a build over a chain of containment and a shared element has returned
C24_Witness ==
    /\ built = "ok"
    /\ \E a, b, c \in DOMAIN config.name :
         /\ a # b /\ b # c /\ a # c
         /\ b \in Range(config.elements[a])
         /\ c \in Range(config.elements[a])
         /\ c \in Range(config.elements[b])
         /\ Len(dag.constructed) = 3

(***************************************************************************)
(* Configurations in which a descriptor may name a kind that               *)
(* NODE_NAME_MAPPING does not have.                                        *)
(***************************************************************************)
Unregistered == "NoSuchKind"

KindsFirst ==
    {"dashscope_chat", "DialogAgent", "SequentialPipeline", "IfElsePipeline", "CopyNode",
     Unregistered}

KindsOther == DepKinds \cup {Unregistered}

InitKinds ==
    \E n \in NodeIds :
      LET ids == 1..n IN
      \E names \in {f \in [ids -> KindsFirst \cup KindsOther] :
                      /\ f[1] \in KindsFirst
                      /\ \A i \in ids \ {1} : f[i] \in KindsOther} :
        \E els \in BuildElementAssignments(n, ids, MaxDeps) :
          /\ SumLen(els) <= MaxDeps
          /\ ContainmentAcyclic(els)
          /\ config = [name |-> names, elements |-> els,
                       conns |-> [i \in ids |-> <<>>], cases |-> [i \in ids |-> 0],
                       args |-> CasesArgs(names)]
          /\ data = DataOf(config)
          /\ Untouched
          /\ built = "none"
          /\ dag = NewGraph({})
          /\ registry = {}
          /\ runPc = "idle"
          /\ sorted = <<>>
          /\ values = NoValues
          /\ calls = <<>>
          /\ runErr = ""
          /\ programs = <<>>
          /\ lst = <<>>
          /\ dedupPc = "idle"
          /\ result = <<>>
          /\ HubIdle

SpecKinds == InitKinds /\ [][NextBuild]_vars

\* the descriptors whose kind name is not registered
UnknownKinds == {i \in DOMAIN config.name : NodeTypeOf(config.name[i]) = "KeyError"}

\* a Model descriptor lists elements
ModelListsElements ==
    \E i \in DOMAIN config.name :
      NodeTypeOf(config.name[i]) = "MODEL" /\ config.elements[i] # <<>>

\* C25: when any descriptor of the configuration declares a kind name that is not
\* registered, at top level or as a contained element, build_dag raises the
\* unknown-kind error (the KeyError of the lookup) and returns no graph.
C25_UnknownKindRejected ==
    (built # "none" /\ UnknownKinds # {}) => built = "KeyError"

\* the same, over the configurations in which no Model descriptor lists elements
C25_HoldsUnlessModelListsElements ==
    ~ModelListsElements => C25_UnknownKindRejected

\* with an unregistered kind the build never returns a graph
C25_NoGraphReturned ==
    (built # "none" /\ UnknownKinds # {}) => built # "ok"

(***************************************************************************)
(* The workflow importer.  An XML document is the list of its module       *)
(* elements and of its connection elements, in document order, and whether *)
(* it has a metadata element; a JSON document is the dictionary it holds.  *)
(***************************************************************************)
\* most module elements, most connection elements of a document
MaxModules == 2
MaxConnections == 2

ModuleIds == {1, 2}
\* the "from" and "to" attributes of a connection element; "" when absent
EndIds == {"", "1", "2"}
Extensions == {".json", ".xml", ".yaml"}

\* the dictionary _xml_to_dict makes of a module element
ModuleDict(id) == [id |-> id, module |-> "agent", version |-> 1]

RECURSIVE ConnectionsDict(_, _)
\* the loop over the connection elements: an element without both ends is skipped,
\* a source is entered once, and so is a target under its source
ConnectionsDict(elems, connections) ==
    IF elems = <<>> THEN connections
    ELSE LET from_id == Head(elems).from
             to_id == Head(elems).to
             targets == IF from_id \in DOMAIN connections THEN connections[from_id]
                        ELSE [t \in {} |-> <<0>>]
         IN ConnectionsDict(
              Tail(elems),
              IF from_id # "" /\ to_id # ""
              THEN [f \in DOMAIN connections \cup {from_id} |->
                      IF f = from_id
                      THEN [t \in DOMAIN targets \cup {to_id} |-> <<0>>]
                      ELSE connections[f]]
              ELSE connections)

NoEntries == [k \in {} |-> <<>>]

\* _xml_to_dict on the root element
xml_to_dict(doc) ==
    LET modules == [i \in DOMAIN doc.modules |-> ModuleDict(doc.modules[i])]
        connections == ConnectionsDict(doc.connections, NoEntries)
    IN (IF doc.metadata THEN [metadata |-> NoEntries] ELSE NoEntries)
       @@ (IF modules # <<>> THEN [modules |-> modules] ELSE NoEntries)
       @@ (IF connections # NoEntries THEN [connections |-> connections] ELSE NoEntries)

\* the JSON document of the workflow an XML document describes
JsonFormOf(doc) ==
    [ext |-> ".json", exists |-> doc.exists,
     content |-> [modules |-> [i \in DOMAIN doc.modules |-> ModuleDict(doc.modules[i])],
                  connections |-> ConnectionsDict(doc.connections, NoEntries)]]

\* load_workflow: [err, config]
load_workflow(f) ==
    IF ~f.exists THEN [err |-> "FileNotFoundError", config |-> NoEntries]
    ELSE IF f.ext = ".json" THEN [err |-> "", config |-> f.content]
    ELSE IF f.ext = ".xml" THEN [err |-> "", config |-> xml_to_dict(f)]
    ELSE [err |-> "ValueError", config |-> NoEntries]

\* convert_to_agentscope_workflow: the configuration comes back as it is, with a
\* warning when an entry is missing
convert_to_agentscope_workflow(cfg) == cfg

InitImport ==
    /\ \E ext \in Extensions, exists \in BOOLEAN, metadata \in BOOLEAN :
         \E mods \in SeqsUpTo(ModuleIds, MaxModules) :
           \E conns \in SeqsUpTo([from : EndIds, to : EndIds], MaxConnections) :
             LET doc == [ext |-> ext, exists |-> exists, metadata |-> metadata,
                         modules |-> mods, connections |-> conns]
             IN file = IF ext = ".json" THEN JsonFormOf(doc) ELSE doc
    /\ importPc = "idle"
    /\ imported = NoEntries
    /\ again = NotBuiltAgain
    /\ passes = <<>>
    /\ data = <<>>
    /\ config = [name |-> <<>>, elements |-> <<>>, conns |-> <<>>, cases |-> <<>>,
                 args |-> <<>>]
    /\ built = "none"
    /\ dag = NewGraph({})
    /\ registry = {}
    /\ runPc = "idle"
    /\ sorted = <<>>
    /\ values = NoValues
    /\ calls = <<>>
    /\ runErr = ""
    /\ programs = <<>>
    /\ lst = <<>>
    /\ dedupPc = "idle"
    /\ result = <<>>
    /\ HubIdle

notImportVars == <<config, built, dag, registry, runVars, programs, dedupVars, hubVars,
                   data, again, passes>>

\* config = load_workflow(file)
Load ==
    /\ importPc = "idle"
    /\ \E r \in {load_workflow(file)} :
         /\ importPc' = IF r.err = "" THEN "loaded" ELSE "failed"
         /\ imported' = r.config
    /\ UNCHANGED <<file, notImportVars>>

\* config = convert_to_agentscope_workflow(config)
Convert ==
    /\ importPc = "loaded"
    /\ imported' = convert_to_agentscope_workflow(imported)
    /\ importPc' = "converted"
    /\ UNCHANGED <<file, notImportVars>>

NextImport == Load \/ Convert

SpecImport == InitImport /\ [][NextImport]_vars

\* the configuration the JSON form of the same workflow loads and converts to
JsonConfigOf(doc) == convert_to_agentscope_workflow(load_workflow(JsonFormOf(doc)).config)

\* C26: a workflow file that was loaded and converted gives a configuration with a
\* 'modules' and a 'connections' entry, from XML as from JSON and also when the XML
\* document has no module or no connection element, and an XML document gives as many
\* modules and as many connection sources as the JSON form of the same workflow.
C26_BothEntriesPresent ==
    importPc = "converted" =>
      /\ {"modules", "connections"} \subseteq DOMAIN imported
      /\ file.ext = ".xml" =>
           /\ Len(imported["modules"]) = Len(JsonConfigOf(file)["modules"])
           /\ Cardinality(DOMAIN imported["connections"])
                = Cardinality(DOMAIN JsonConfigOf(file)["connections"])

\* an XML document has a module element and a connection element with both ends
HasModuleAndConnection(doc) ==
    /\ doc.modules # <<>>
    /\ \E i \in DOMAIN doc.connections :
         doc.connections[i].from # "" /\ doc.connections[i].to # ""

\* the same, for JSON documents and for the XML documents that have a module and a
\* complete connection element
C26_HoldsForNonEmptyDocuments ==
    (file.ext = ".xml" => HasModuleAndConnection(file)) => C26_BothEntriesPresent

(***************************************************************************)
(* The example in the docstring of remove_duplicates_from_end.             *)
(***************************************************************************)
FirstPositions(s) == {i \in DOMAIN s : \A j \in 1..(i - 1) : s[j] # s[i]}

\* the position of the last occurrence of x in s
LastIndexOf(s, x) == CHOOSE i \in LastPositions(s) : s[i] = x

RECURSIVE Invoked(_, _, _)
\* the nodes whose __call__ runs when node id is called, in order
Invoked(g, cfg, id) ==
    LET name == cfg.name[id]
    IN <<id>> \o
       (CASE name = "SequentialPipeline" ->
               Flatten([i \in DOMAIN g.dep_opts[id] |-> Invoked(g, cfg, g.dep_opts[id][i])])
          [] name = "CopyNode" -> Invoked(g, cfg, g.dep_opts[id][1])
          [] OTHER -> <<>>)

\* the invocations of the last pass
InvokedInPass == Flatten([i \in DOMAIN calls |-> Invoked(dag, config, calls[i].node)])

TimesInvoked(n) == Cardinality({i \in DOMAIN InvokedInPass : InvokedInPass[i] = n})

\* the Copy nodes the run scheduled together with their dependency
ScheduledCopies ==
    {c \in Range(sorted) : config.name[c] = "CopyNode" /\ dag.dep_opts[c][1] \in Range(sorted)}

\* C28: executing a Copy node passes its dependency's result through: in a run that
\* schedules both the Copy node and its dependency, the Copy node's output is the
\* dependency's output of that pass and the dependency's callable is invoked exactly
\* once.
C28_CopyPassesResultThrough ==
    runPc = "done" =>
      \A c \in ScheduledCopies :
        /\ values[c] = values[dag.dep_opts[c][1]]
        /\ TimesInvoked(dag.dep_opts[c][1]) = 1

\* what the code does: the Copy node calls its dependency on its own input, so the
\* dependency's callable runs once for itself and once more for every Copy of it
C28_CopyCallsDependencyAgain ==
    runPc = "done" =>
      \A c \in ScheduledCopies :
        LET d == dag.dep_opts[c][1]
        IN /\ \A i \in CallsOf(c) : values[c] = Call(dag, config, d, calls[i].x)
           /\ TimesInvoked(d) >= 2

(***************************************************************************)
(* Reads of the cache of run().                                            *)
(***************************************************************************)
\* a scheduled node has a flow predecessor that is excluded from scheduling
ReadsExcludedPredecessor ==
    \E n \in NonExcluded : \E p \in FlowPreds(n) : p \in Excluded

\* C29: run() never reads a cache entry that was not written in the pass: no run()
\* ends with the KeyError of values[predecessor], also when a flow edge starts at a
\* node that is excluded from scheduling.
C29_NoUnwrittenCacheRead ==
    RunEnded => runErr # "KeyError"

\* the unwritten entry is read only for an excluded flow predecessor of a scheduled
\* node, and such an edge always makes run() raise
C29_KeyErrorOnlyForExcludedPredecessor ==
    RunEnded =>
      /\ runErr = "KeyError" => ReadsExcludedPredecessor
      /\ ReadsExcludedPredecessor => runErr \in {"KeyError", TooManyPredecessors}

(***************************************************************************)
(* Variables of the generated program: where each is defined, where used.  *)
(***************************************************************************)
\* an init statement "<var_name> = ..."
DefinesVar(line) ==
    line.stmt \in {"var = DialogAgent", "var = SequentialPipeline", "var = ReActAgent",
                   "var = partial(bing_search)", "var = _ForLoopPipeline",
                   "var = _WhileLoopPipeline", "var = _IfElsePipeline",
                   "var = _SwitchPipeline"}

\* the variables a statement reads, the flow variable apart: the dep_vars an init
\* statement lists, the variable an exec statement calls
UsedVars(line) ==
    IF line.stmt = "flow = var(flow)" THEN {line.var}
    ELSE IF DefinesVar(line) THEN Range(line.deps)
    ELSE {}

\* v is defined by an init statement before statement i of the body
DefinedBefore(body, i, v) ==
    \E j \in 1..(i - 1) :
      /\ j <= Len(dag.inits)
      /\ DefinesVar(body[j])
      /\ body[j].var = v

\* C30: in every generated program each variable is defined before use: the init
\* statement of a node comes after the init statements that define the variables of
\* its dependencies, and an exec statement calls only a variable that an init
\* statement defines.
C30_DefinedBeforeUse ==
    \A k \in DOMAIN programs :
      LET body == programs[k].text.body
      IN \A i \in DOMAIN body : \A v \in UsedVars(body[i]) : DefinedBefore(body, i, v)

\* every element a descriptor lists is an agent or a sequential pipeline
ElementsDefineVars ==
    \A c \in Ids : \A i \in DOMAIN config.elements[c] :
      config.name[config.elements[c][i]] \in {"DialogAgent", "SequentialPipeline"}

\* the same, over the configurations whose contained elements all have an init
\* statement that defines their variable
C30_HoldsWhenElementsDefineVars ==
    ElementsDefineVars => C30_DefinedBeforeUse

====
